---------------------------- MODULE Spec2Model ----------------------------
(***************************************************************************)
(* ezboot: the interactive control state machine of src/main.rs (the event *)
(* loop of main) and the privileged command executor it drives.            *)
(*                                                                         *)
(* Text (the error stream, messages, the password) is a sequence of        *)
(* one-character strings, so that contains(), trim() and == are computed   *)
(* as the code computes them.                                              *)
(*                                                                         *)
(* Spec is the event loop. SpecStartup is main before the loop, on every   *)
(* fetched list and order; SpecPrompt is the editing of the secret in      *)
(* AskPassword, on every sequence of editing keys.                         *)
(***************************************************************************)
EXTENDS Integers, Sequences, FiniteSets, TLC

\* ------------------------------------------------------------------ bounds
\* Largest number of boot entries the inventory returns.
MaxEntries == 2
\* Largest number of characters typed into the password prompt.
MaxPwLen == 1
\* Largest number of ids the fetched boot order holds, in the startup model.
MaxOrderLen == 2
\* Largest number of characters of the secret, in the prompt model.
MaxPromptLen == 3

\* ------------------------------------------------------- program constants
\* CountdownReboot(5): the countdown's first value.
CountdownStart == 5
\* Duration::from_secs(1): the ticker's threshold, in seconds.
TickSecs == 1

\* -------------------------------------------------------------------- text
Whitespace == {" ", "\n", "\t", "\r"}

MinOf(S) == CHOOSE x \in S : \A y \in S : x <= y
MaxOf(S) == CHOOSE x \in S : \A y \in S : x >= y

\* str::contains(sub)
Contains(s, sub) ==
    \E i \in 1..(Len(s) - Len(sub) + 1) : SubSeq(s, i, i + Len(sub) - 1) = sub

\* str::trim(): leading and trailing whitespace removed
Trim(s) ==
    LET keep == {i \in 1..Len(s) : s[i] \notin Whitespace}
    IN  IF keep = {} THEN <<>> ELSE SubSeq(s, MinOf(keep), MaxOf(keep))

DigitChar(d) == <<"0", "1", "2", "3", "4", "5", "6", "7", "8", "9">>[d + 1]

RECURSIVE ShowNat(_)
ShowNat(n) == IF n < 10 THEN <<DigitChar(n)>>
              ELSE ShowNat(n \div 10) \o <<DigitChar(n % 10)>>

\* format!("{}", i32)
ShowInt(n) == IF n < 0 THEN <<"-">> \o ShowNat(0 - n) ELSE ShowNat(n)

SorryText == <<"S", "o", "r", "r", "y">>
TryAgainText == <<"t", "r", "y", " ", "a", "g", "a", "i", "n">>
IncorrectPasswordText ==
    <<"I", "n", "c", "o", "r", "r", "e", "c", "t", " ",
      "p", "a", "s", "s", "w", "o", "r", "d">>
ExitCodePrefix ==
    <<"C", "o", "m", "m", "a", "n", "d", " ", "f", "a", "i", "l", "e", "d", " ",
      "w", "i", "t", "h", " ", "e", "x", "i", "t", " ", "c", "o", "d", "e", ":", " ">>

\* ---------------------------------------------------------------- the types
\* struct BootEntry
BootEntry(i) == [id |-> <<"0001", "0002", "0003", "0004">>[i],
                 name |-> <<"Linux", "Windows", "Setup", "Shell">>[i]]

Ids(es) == [i \in 1..Len(es) |-> es[i].id]

\* enum Focus
FocusValues == {"Priority", "BootOnce"}

\* enum Action
ActionNone == [kind |-> "None", ids |-> <<>>]
ActionSetOrder(ids) == [kind |-> "SetOrder", ids |-> ids]
ActionBootOnce(id) == [kind |-> "BootOnce", ids |-> <<id>>]

\* enum UIState
UIState(tag, seconds, msg) == [tag |-> tag, seconds |-> seconds, msg |-> msg]
StMain == UIState("Main", 0, <<>>)
StAskPassword == UIState("AskPassword", 0, <<>>)
StPasswordError == UIState("PasswordError", 0, <<>>)
StConfirmReboot == UIState("ConfirmReboot", 0, <<>>)
StCountdownReboot(n) == UIState("CountdownReboot", n, <<>>)
StQuitConfirm == UIState("QuitConfirm", 0, <<>>)
StHelp == UIState("Help", 0, <<>>)
StErrorMessage(msg) == UIState("ErrorMessage", 0, msg)

\* ------------------------------------------------------------------- inputs
\* crossterm KeyCode values the operator presses.
KeyChar(c) == [code |-> "Char", c |-> c]
KeySpecial(code) == [code |-> code, c |-> ""]
Chars == {"q", "u", "d", "h"}
Keys == {KeyChar(c) : c \in Chars}
        \cup {KeySpecial(k) : k \in {"Tab", "Up", "Down", "Enter", "Esc",
                                     "Backspace"}}
\* The characters the operator types into the password prompt.
PwChars == {"q"}

\* std::process::ExitStatus of the child: an exit code, or death by a signal.
Exited(n) == [kind |-> "code", n |-> n]
Signaled == [kind |-> "signal", n |-> 0]
ExitStatuses == {Exited(0), Exited(127), Signaled}

\* What sudo and the command wrote on the error stream.
StderrTexts ==
    { <<>>,
      <<"\n">>,
      SorryText \o <<",">>,
      <<"3", " ">> \o TryAgainText,
      <<" ", "e", "r", "r", "\n">>,
      IncorrectPasswordText \o <<"\n">> }

\* One run of execute_sudo_command: an I/O error (spawn, write or wait failed),
\* or the child's exit status and error stream.
CmdIoError == [kind |-> "io_error", status |-> Signaled, stderr |-> <<>>]
CmdOutput(status, stderr) == [kind |-> "output", status |-> status, stderr |-> stderr]
CmdResults == {CmdIoError}
              \cup {CmdOutput(st, err) : st \in ExitStatuses, err \in StderrTexts}

\* The boot inventory at startup: the entries in the inventory tool's order.
FetchedEntries(n) == [i \in 1..n |-> BootEntry(i)]
Reverse(s) == [i \in 1..Len(s) |-> s[Len(s) - i + 1]]

\* Sequences over S of length n at most.
SeqsUpTo(S, n) == UNION {[1..k -> S] : k \in 0..n}

\* fetch_boot_entries: every list of distinct entries the inventory can return.
FetchedLists ==
    {es \in SeqsUpTo({BootEntry(i) : i \in 1..(MaxEntries + 1)}, MaxEntries) :
       \A i, j \in 1..Len(es) : i /= j => es[i] /= es[j]}

\* fetch_boot_order: every order the "BootOrder:" line can hold; an id may
\* repeat, and may be the id of no fetched entry.
FetchedOrderLists == SeqsUpTo({BootEntry(i).id : i \in 1..4}, MaxOrderLen)


\* ------------------------------------------------- the privileged executor
\* order_ids.join(","): the ids with a comma between neighbours. An id and a
\* comma are one piece of the text each.
RECURSIVE JoinComma(_)
JoinComma(ids) ==
    IF ids = <<>> THEN <<>>
    ELSE IF Len(ids) = 1 THEN <<ids[1]>>
    ELSE <<ids[1], ",">> \o JoinComma(Tail(ids))

\* One step of the caller on the child: a write on its input channel (of
\* "password", the argument of that name, or of the literal "\n"), a flush,
\* the close of the channel (drop), the wait for its exit status.
ChildOp(op, data) == [op |-> op, data |-> data]

\* No program was started.
NoCall == [argv |-> <<>>, stdin |-> "none", script |-> <<>>]

\* Mutant of SudoCall: the newline after the secret is not written.
SudoCall_NoNewline(args) ==
    [argv |-> <<<<"sudo">>, <<"-S">>>> \o args,
     stdin |-> "piped",
     script |-> <<ChildOp("write", "password"), ChildOp("flush", ""),
                  ChildOp("close", ""), ChildOp("wait", "")>>]

\* execute_sudo_command, lines 52-67: `sudo -S args` with a piped input
\* channel; the secret and a newline are written, the channel is flushed and
\* dropped, then the output is waited for.
SudoCall(args) ==
    [argv |-> <<<<"sudo">>, <<"-S">>>> \o args,
     stdin |-> "piped",
     script |-> <<ChildOp("write", "password"), ChildOp("write", "\n"),
                  ChildOp("flush", ""), ChildOp("close", ""),
                  ChildOp("wait", "")>>]

\* The ticker's `sudo reboot`: a null input channel, nothing written, and the
\* wait when the spawn succeeded.
RebootCall(r) ==
    [argv |-> <<<<"sudo">>, <<"reboot">>>>,
     stdin |-> "null",
     script |-> IF r = "spawn_error" THEN <<>> ELSE <<ChildOp("wait", "")>>]

\* execute_set_boot_order: the arguments of the order-setting command.
SetOrderArgs(order_ids) ==
    <<<<"efibootmgr">>, <<"-o">>, JoinComma(order_ids)>>

\* execute_boot_once: the arguments of the one-shot-boot command.
BootOnceArgs(id) ==
    <<<<"efibootmgr">>, <<"-n">>, <<id>>>>
\* The error stream names rejected credentials.
HasRejectionPhrase(stderr) ==
    Contains(stderr, SorryText) \/ Contains(stderr, TryAgainText)

\* output.status.success()
StatusSuccess(st) == st.kind = "code" /\ st.n = 0

\* output.status.code().unwrap_or(-1)
StatusCodeOrMinusOne(st) == IF st.kind = "code" THEN st.n ELSE 0 - 1

\* The message of a failed command: the trimmed error stream, or the exit code.
FailureMessage(res) ==
    IF Trim(res.stderr) /= <<>>
    THEN Trim(res.stderr)
    ELSE ExitCodePrefix \o ShowInt(StatusCodeOrMinusOne(res.status))

\* Mutant of execute_sudo_command: the exit status is looked at before the
\* error stream, so a rejection phrase with exit status zero is a success.
execute_sudo_command_StatusFirst(res) ==
    IF res.kind = "io_error"
    THEN [err |-> TRUE, ok |-> FALSE, msg |-> <<>>]
    ELSE IF StatusSuccess(res.status)
    THEN [err |-> FALSE, ok |-> TRUE, msg |-> <<>>]
    ELSE IF HasRejectionPhrase(res.stderr)
    THEN [err |-> FALSE, ok |-> FALSE, msg |-> IncorrectPasswordText]
    ELSE [err |-> FALSE, ok |-> FALSE, msg |-> FailureMessage(res)]

\* execute_sudo_command: Err(..), or Ok((succeeded, message)).
execute_sudo_command(res) ==
    IF res.kind = "io_error"
    THEN [err |-> TRUE, ok |-> FALSE, msg |-> <<>>]
    ELSE IF HasRejectionPhrase(res.stderr)
    THEN [err |-> FALSE, ok |-> FALSE, msg |-> IncorrectPasswordText]
    ELSE IF ~StatusSuccess(res.status)
    THEN [err |-> FALSE, ok |-> FALSE, msg |-> FailureMessage(res)]
    ELSE [err |-> FALSE, ok |-> TRUE, msg |-> <<>>]

\* The state a finished command leads to, given the state its success leads to.
OutcomeState(result, onSuccess) ==
    IF result.ok THEN onSuccess
    ELSE IF result.msg = IncorrectPasswordText THEN StPasswordError
    ELSE StErrorMessage(result.msg)

\* execute_set_boot_order: Err(..), or Ok(next state).
execute_set_boot_order(res) ==
    LET result == execute_sudo_command(res)
    IN  [err |-> result.err, state |-> OutcomeState(result, StConfirmReboot)]

\* Mutant of execute_boot_once: success asks for confirmation, as a set-order does.
execute_boot_once_AsksFirst(res) ==
    LET result == execute_sudo_command(res)
    IN  [err |-> result.err, state |-> OutcomeState(result, StConfirmReboot)]

\* execute_boot_once: Err(..), or Ok(next state).
execute_boot_once(res) ==
    LET result == execute_sudo_command(res)
    IN  [err |-> result.err,
         state |-> OutcomeState(result, StCountdownReboot(CountdownStart))]

\* ------------------------------------------------------- the reorder model
\* Mutant of Swap: position i takes the element of j, which keeps its own.
Swap_Overwrites(es, i, j) ==
    [k \in 1..Len(es) |-> IF k = i + 1 THEN es[j + 1] ELSE es[k]]

\* Vec::swap on 0-based indices i and j.
Swap(es, i, j) ==
    [k \in 1..Len(es) |-> IF k = i + 1 THEN es[j + 1]
                          ELSE IF k = j + 1 THEN es[i + 1] ELSE es[k]]

\* Mutant of SortKey: an entry whose id is not in the order sorts first.
SortKey_MissingFirst(o, e) ==
    LET at == {i \in 1..Len(o) : o[i] = e.id}
    IN  IF at = {} THEN 0 ELSE MinOf(at)

\* order.iter().position(|id| id == &e.id).unwrap_or(usize::MAX)
SortKey(order, e) ==
    LET at == {i \in 1..Len(order) : order[i] = e.id}
    IN  IF at = {} THEN Len(order) + 1 ELSE MinOf(at)

\* entries.sort_by_key(..): a stable sort by SortKey, skipped for an empty order.
SortByOrder(es, order) ==
    IF order = <<>> THEN es
    ELSE LET Before(i, j) == SortKey(order, es[i]) < SortKey(order, es[j])
                             \/ (SortKey(order, es[i]) = SortKey(order, es[j]) /\ i < j)
             Rank(i) == Cardinality({j \in 1..Len(es) : Before(j, i)}) + 1
         IN  [r \in 1..Len(es) |-> es[CHOOSE i \in 1..Len(es) : Rank(i) = r]]

\* order.first().cloned().unwrap_or_default()
FirstOrDefault(order) == IF order = <<>> THEN "" ELSE order[1]

\* ------------------------------------------------------------------- state
VARIABLES
    entries,            \* Vec<BootEntry>
    current_boot_id,    \* the first id of the fetched order
    original_order,     \* the ids of entries at startup
    selected_priority,  \* cursor of the priority panel (0-based)
    selected_boot_once, \* cursor of the boot-target panel (0-based)
    focus,              \* the focused panel
    state,              \* UIState
    password,           \* the secret buffer
    show_password,
    pending_action,     \* Action
    reboot_yes,
    quit_yes,
    elapsed,            \* last_tick.elapsed(), in whole seconds up to TickSecs
    pc,                 \* "loop", or how main ended: "exited", "error", "panicked"
    reboot,             \* the reboot invocation: "none", "spawn_error", "waited"
    last_arm,           \* history: the handler that ran last, when it left its
                        \* state or ended the loop; "stay" when it did neither
    last_cmd,           \* history: the command run by the last handler
    ticks,              \* history: ticks taken since the countdown was entered
    undo,               \* history: a move-down and the move-up right after it
    fetched,            \* what fetch_boot_entries returned
    order,              \* what fetch_boot_order returned
    typist,             \* the operator at the prompt: the characters typed,
                        \* how many at most, and whether typed is kept
    typed,              \* history: the keys handled by the editing arms of
                        \* AskPassword since the prompt was entered
    last_call,          \* history: the program the last handler started
    waited              \* history: seconds (up to TickSecs) since the
                        \* countdown was entered or ticked

vars == <<entries, current_boot_id, original_order, selected_priority,
          selected_boot_once, focus, state, password, show_password,
          pending_action, reboot_yes, quit_yes, elapsed, pc, reboot,
          last_arm, last_cmd, ticks, undo, fetched, order, typist, typed,
          last_call, waited>>

NoCmd == [kind |-> "none", status |-> Signaled, stderr |-> <<>>]
NoUndo == [stage |-> "none", entries |-> <<>>, cursor |-> 0]

\* The fetched boot orders the model starts from.
FetchedOrders(es) == {Reverse(Ids(es))}

\* main, lines 705-716: the values the loop's variables are declared with.
Declared ==
    /\ selected_priority = 0
    /\ selected_boot_once = 0
    /\ focus = "Priority"
    /\ state = StMain
    /\ password = <<>>
    /\ show_password = FALSE
    /\ pending_action = ActionNone
    /\ reboot_yes = TRUE
    /\ quit_yes = FALSE
    /\ elapsed = 0
    /\ reboot = "none"
    /\ last_cmd = NoCmd
    /\ ticks = 0
    /\ undo = NoUndo
    /\ typed = <<>>
    /\ last_call = NoCall
    /\ waited = 0

\* Mutant of LoopEntered: original_order is captured before the sort.
LoopEntered_SnapshotBeforeSort(f, o) ==
    /\ fetched = f
    /\ order = o
    /\ entries = SortByOrder(f, o)
    /\ current_boot_id = FirstOrDefault(o)
    /\ original_order = Ids(f)
    /\ pc = "loop"
    /\ last_arm = "start"
    /\ Declared

\* The state when the event loop is entered, after main's lines 691-716 ran on
\* the fetched list f and the fetched order o.
LoopEntered(f, o) ==
    /\ fetched = f
    /\ order = o
    /\ entries = SortByOrder(f, o)
    /\ current_boot_id = FirstOrDefault(o)
    /\ original_order = Ids(SortByOrder(f, o))
    /\ pc = "loop"
    /\ last_arm = "start"
    /\ Declared

\* The operator of the state machine model: types characters of PwChars.
Operator == [chars |-> PwChars, max |-> MaxPwLen, logged |-> FALSE]

\* main, lines 691-716: the state when the event loop is entered.
Init ==
    \E n \in 0..MaxEntries :
      \E o \in FetchedOrders(FetchedEntries(n)) :
        /\ LoopEntered(FetchedEntries(n), o)
        /\ typist = Operator

\* Variables no handler of a key or of time changes.
fixed == <<current_boot_id, original_order, fetched, order, typist>>
\* The reorder model.
model == <<entries, selected_priority, selected_boot_once, focus>>
\* The dialog flags and the secret.
dialog == <<password, show_password, pending_action, reboot_yes, quit_yes>>

\* A handler ran: the history it leaves when it runs no command and is no move.
Ran(arm) ==
    /\ last_arm' = arm
    /\ last_cmd' = NoCmd
    /\ ticks' = 0
    /\ undo' = NoUndo
    /\ typed' = <<>>
    /\ last_call' = NoCall
    /\ waited' = 0

\* An editing arm of AskPassword handled `key`: the history it leaves.
Edited(key) ==
    /\ last_arm' = "stay"
    /\ last_cmd' = NoCmd
    /\ ticks' = 0
    /\ undo' = NoUndo
    /\ typed' = IF typist.logged THEN Append(typed, key) ELSE typed
    /\ last_call' = NoCall
    /\ waited' = 0

\* The event loop is in `tag` and reads a key.
InState(tag) == pc = "loop" /\ state.tag = tag

\* --------------------------------------------------------- keys, by handler
KeyQuit == {KeyChar("q")}
KeyUp == {KeySpecial("Up"), KeyChar("k")}
KeyDown == {KeySpecial("Down"), KeyChar("j")}
KeyMoveUp == {KeyChar("u")}
KeyMoveDown == {KeyChar("d")}
KeyHelp == {KeyChar("?"), KeyChar("h")}
KeyToggle == {KeySpecial("Left"), KeySpecial("Right"), KeySpecial("Tab")}
KeyEnter == KeySpecial("Enter")
KeyEsc == KeySpecial("Esc")
KeyTab == KeySpecial("Tab")
KeyBackspace == KeySpecial("Backspace")

\* ------------------------------------------------------------ UIState::Main
\* Mutant of MainQuit: the selection of the quit dialog is not reset to "No".
MainQuit_KeepsSelection(key) ==
    /\ InState("Main") /\ key \in KeyQuit
    /\ IF Ids(entries) /= original_order
       THEN state' = StQuitConfirm /\ pc' = pc
       ELSE state' = state /\ pc' = "exited"
    /\ Ran("Main:q")
    /\ UNCHANGED <<fixed, model, dialog, elapsed, reboot>>

\* Main x 'q'
MainQuit(key) ==
    /\ InState("Main") /\ key \in KeyQuit
    /\ IF Ids(entries) /= original_order
       THEN state' = StQuitConfirm /\ quit_yes' = FALSE /\ pc' = pc
       ELSE state' = state /\ quit_yes' = quit_yes /\ pc' = "exited"
    /\ Ran("Main:q")
    /\ UNCHANGED <<fixed, model, password, show_password, pending_action,
                   reboot_yes, elapsed, reboot>>

\* Main x Tab
MainTab(key) ==
    /\ InState("Main") /\ key = KeyTab
    /\ focus' = IF focus = "Priority" THEN "BootOnce" ELSE "Priority"
    /\ Ran("stay")
    /\ UNCHANGED <<fixed, entries, selected_priority, selected_boot_once,
                   state, dialog, elapsed, pc, reboot>>

\* Main x Up | 'k'
MainUp(key) ==
    /\ InState("Main") /\ key \in KeyUp
    /\ selected_priority' =
         IF focus = "Priority" /\ selected_priority > 0
         THEN selected_priority - 1 ELSE selected_priority
    /\ selected_boot_once' =
         IF focus = "BootOnce" /\ selected_boot_once > 0
         THEN selected_boot_once - 1 ELSE selected_boot_once
    /\ Ran("stay")
    /\ UNCHANGED <<fixed, entries, focus, state, dialog, elapsed, pc, reboot>>

\* Mutant of MainDown: the bound is compared with <= instead of <.
MainDown_OffByOne(key) ==
    /\ InState("Main") /\ key \in KeyDown
    /\ selected_priority' =
         IF focus = "Priority" /\ selected_priority + 1 <= Len(entries)
         THEN selected_priority + 1 ELSE selected_priority
    /\ selected_boot_once' =
         IF focus = "BootOnce" /\ selected_boot_once + 1 <= Len(entries)
         THEN selected_boot_once + 1 ELSE selected_boot_once
    /\ Ran("stay")
    /\ UNCHANGED <<fixed, entries, focus, state, dialog, elapsed, pc, reboot>>

\* Main x Down | 'j'
MainDown(key) ==
    /\ InState("Main") /\ key \in KeyDown
    /\ selected_priority' =
         IF focus = "Priority" /\ selected_priority + 1 < Len(entries)
         THEN selected_priority + 1 ELSE selected_priority
    /\ selected_boot_once' =
         IF focus = "BootOnce" /\ selected_boot_once + 1 < Len(entries)
         THEN selected_boot_once + 1 ELSE selected_boot_once
    /\ Ran("stay")
    /\ UNCHANGED <<fixed, entries, focus, state, dialog, elapsed, pc, reboot>>

\* Mutant of MainMoveUp: the entries are swapped and the cursor stays behind.
MainMoveUp_CursorStays(key) ==
    /\ InState("Main") /\ key \in KeyMoveUp /\ focus = "Priority"
    /\ IF selected_priority > 0
       THEN /\ entries' = Swap(entries, selected_priority, selected_priority - 1)
            /\ selected_priority' = selected_priority
       ELSE UNCHANGED <<entries, selected_priority>>
    /\ last_arm' = "stay"
    /\ last_cmd' = NoCmd
    /\ last_call' = NoCall
    /\ UNCHANGED <<typed, waited>>
    /\ ticks' = 0
    /\ undo' = IF undo.stage = "d" THEN [undo EXCEPT !.stage = "du"] ELSE NoUndo
    /\ UNCHANGED <<fixed, selected_boot_once, focus, state, dialog, elapsed,
                   pc, reboot>>

\* Main x 'u', the priority panel focused
MainMoveUp(key) ==
    /\ InState("Main") /\ key \in KeyMoveUp /\ focus = "Priority"
    /\ IF selected_priority > 0
       THEN /\ entries' = Swap(entries, selected_priority, selected_priority - 1)
            /\ selected_priority' = selected_priority - 1
       ELSE UNCHANGED <<entries, selected_priority>>
    /\ last_arm' = "stay"
    /\ last_cmd' = NoCmd
    /\ last_call' = NoCall
    /\ UNCHANGED <<typed, waited>>
    /\ ticks' = 0
    /\ undo' = IF undo.stage = "d" THEN [undo EXCEPT !.stage = "du"] ELSE NoUndo
    /\ UNCHANGED <<fixed, selected_boot_once, focus, state, dialog, elapsed,
                   pc, reboot>>

\* Main x 'd', the priority panel focused
MainMoveDown(key) ==
    /\ InState("Main") /\ key \in KeyMoveDown /\ focus = "Priority"
    /\ IF selected_priority + 1 < Len(entries)
       THEN /\ entries' = Swap(entries, selected_priority, selected_priority + 1)
            /\ selected_priority' = selected_priority + 1
       ELSE UNCHANGED <<entries, selected_priority>>
    /\ last_arm' = "stay"
    /\ last_cmd' = NoCmd
    /\ last_call' = NoCall
    /\ UNCHANGED <<typed, waited>>
    /\ ticks' = 0
    /\ undo' = [stage |-> "d", entries |-> entries, cursor |-> selected_priority]
    /\ UNCHANGED <<fixed, selected_boot_once, focus, state, dialog, elapsed,
                   pc, reboot>>

\* Mutant of MainEnter: the secret is not cleared.
MainEnter_KeepsSecret(key) ==
    /\ InState("Main") /\ key = KeyEnter
    /\ IF focus = "BootOnce" /\ selected_boot_once >= Len(entries)
       THEN /\ pc' = "panicked"
            /\ UNCHANGED <<pending_action, password, state>>
       ELSE /\ pending_action' =
                 IF focus = "Priority"
                 THEN ActionSetOrder(Ids(entries))
                 ELSE ActionBootOnce(entries[selected_boot_once + 1].id)
            /\ password' = password
            /\ state' = StAskPassword
            /\ pc' = pc
    /\ Ran("Main:Enter")
    /\ UNCHANGED <<fixed, model, show_password, reboot_yes, quit_yes, elapsed,
                   reboot>>

\* Main x Enter. entries[selected_boot_once] panics when the index is out of
\* bounds, which ends main.
MainEnter(key) ==
    /\ InState("Main") /\ key = KeyEnter
    /\ IF focus = "BootOnce" /\ selected_boot_once >= Len(entries)
       THEN /\ pc' = "panicked"
            /\ UNCHANGED <<pending_action, password, state>>
       ELSE /\ pending_action' =
                 IF focus = "Priority"
                 THEN ActionSetOrder(Ids(entries))
                 ELSE ActionBootOnce(entries[selected_boot_once + 1].id)
            /\ password' = <<>>
            /\ state' = StAskPassword
            /\ pc' = pc
    /\ Ran("Main:Enter")
    /\ UNCHANGED <<fixed, model, show_password, reboot_yes, quit_yes, elapsed,
                   reboot>>

\* Main x '?' | 'h'
MainHelp(key) ==
    /\ InState("Main") /\ key \in KeyHelp
    /\ state' = StHelp
    /\ Ran("Main:Help")
    /\ UNCHANGED <<fixed, model, dialog, elapsed, pc, reboot>>

\* Main x any other key: the arm `_ => {}`
MainOther(key) ==
    /\ InState("Main")
    /\ key \notin KeyQuit \cup {KeyTab} \cup KeyUp \cup KeyDown \cup {KeyEnter}
                  \cup KeyHelp
    /\ key \in KeyMoveUp \cup KeyMoveDown => focus /= "Priority"
    /\ Ran("stay")
    /\ UNCHANGED <<fixed, model, state, dialog, elapsed, pc, reboot>>

\* ----------------------------------------------------- UIState::AskPassword
\* Mutant of AskPasswordEsc: the secret is not cleared.
AskPasswordEsc_KeepsSecret(key) ==
    /\ InState("AskPassword") /\ key = KeyEsc
    /\ pending_action' = ActionNone
    /\ state' = StMain
    /\ Ran("AskPassword:Esc")
    /\ UNCHANGED <<fixed, model, password, show_password, reboot_yes, quit_yes,
                   elapsed, pc, reboot>>

\* AskPassword x Esc
AskPasswordEsc(key) ==
    /\ InState("AskPassword") /\ key = KeyEsc
    /\ password' = <<>>
    /\ pending_action' = ActionNone
    /\ state' = StMain
    /\ Ran("AskPassword:Esc")
    /\ UNCHANGED <<fixed, model, show_password, reboot_yes, quit_yes, elapsed,
                   pc, reboot>>

\* AskPassword x Tab
AskPasswordTab(key) ==
    /\ InState("AskPassword") /\ key = KeyTab
    /\ show_password' = ~show_password
    /\ Edited(key)
    /\ UNCHANGED <<fixed, model, state, password, pending_action, reboot_yes,
                   quit_yes, elapsed, pc, reboot>>

\* Mutant of Pop: the first character is removed.
Pop_First(s) == IF s = <<>> THEN s ELSE SubSeq(s, 2, Len(s))

\* String::pop
Pop(s) == IF s = <<>> THEN s ELSE SubSeq(s, 1, Len(s) - 1)

\* AskPassword x Backspace
AskPasswordBackspace(key) ==
    /\ InState("AskPassword") /\ key = KeyBackspace
    /\ password' = Pop(password)
    /\ Edited(key)
    /\ UNCHANGED <<fixed, model, state, show_password, pending_action,
                   reboot_yes, quit_yes, elapsed, pc, reboot>>

\* The command of the pending action, run with result res: Err(..), or Ok(state).
RunPending(action, res) ==
    IF action.kind = "SetOrder" THEN execute_set_boot_order(res)
    ELSE IF action.kind = "BootOnce" THEN execute_boot_once(res)
    ELSE [err |-> FALSE, state |-> StMain]

\* The program the pending action starts; its argument `password` is the
\* secret buffer.
PendingCall(action) ==
    IF action.kind = "SetOrder" THEN SudoCall(SetOrderArgs(action.ids))
    ELSE IF action.kind = "BootOnce" THEN SudoCall(BootOnceArgs(action.ids[1]))
    ELSE NoCall

\* Mutant of PasswordAfter: the secret is cleared for PasswordError only.
PasswordAfter_OnlyWrongPassword(next, pw) ==
    IF next.tag \in {"PasswordError"} THEN <<>> ELSE pw

\* The secret after the command: cleared when the state is a failure state.
PasswordAfter(next, pw) ==
    IF next.tag \in {"PasswordError", "ErrorMessage"} THEN <<>> ELSE pw

\* Mutant of AskPasswordEnter: the pending action is taken, None is left.
AskPasswordEnter_TakesPending(key, res) ==
    /\ InState("AskPassword") /\ key = KeyEnter
    /\ LET run == RunPending(pending_action, res)
       IN  IF run.err
           THEN pc' = "error" /\ UNCHANGED <<state, password>>
           ELSE /\ pc' = pc
                /\ state' = run.state
                /\ password' = PasswordAfter(run.state, password)
    /\ last_arm' = "AskPassword:Enter"
    /\ last_cmd' = IF pending_action.kind = "None" THEN NoCmd ELSE res
    /\ last_call' = PendingCall(pending_action)
    /\ typed' = <<>>
    /\ waited' = 0
    /\ ticks' = 0
    /\ undo' = NoUndo
    /\ pending_action' = ActionNone
    /\ UNCHANGED <<fixed, model, show_password, reboot_yes, quit_yes, elapsed,
                   reboot>>

\* AskPassword x Enter, the command ending with res. An Err(..) leaves main by `?`.
AskPasswordEnter(key, res) ==
    /\ InState("AskPassword") /\ key = KeyEnter
    /\ LET run == RunPending(pending_action, res)
       IN  IF run.err
           THEN pc' = "error" /\ UNCHANGED <<state, password>>
           ELSE /\ pc' = pc
                /\ state' = run.state
                /\ password' = PasswordAfter(run.state, password)
    /\ last_arm' = "AskPassword:Enter"
    /\ last_cmd' = IF pending_action.kind = "None" THEN NoCmd ELSE res
    /\ last_call' = PendingCall(pending_action)
    /\ typed' = <<>>
    /\ waited' = 0
    /\ ticks' = 0
    /\ undo' = NoUndo
    /\ UNCHANGED <<fixed, model, show_password, pending_action, reboot_yes,
                   quit_yes, elapsed, reboot>>

\* AskPassword x Char(c); the typist types its characters, typist.max at most.
AskPasswordChar(key) ==
    /\ InState("AskPassword") /\ key.code = "Char"
    /\ key.c \in typist.chars /\ Len(password) < typist.max
    /\ password' = Append(password, key.c)
    /\ Edited(key)
    /\ UNCHANGED <<fixed, model, state, show_password, pending_action,
                   reboot_yes, quit_yes, elapsed, pc, reboot>>

\* AskPassword x any other key: the arm `_ => {}`
AskPasswordOther(key) ==
    /\ InState("AskPassword")
    /\ key \notin {KeyEsc, KeyTab, KeyBackspace, KeyEnter} /\ key.code /= "Char"
    /\ Ran("stay")
    /\ UNCHANGED <<fixed, model, state, dialog, elapsed, pc, reboot>>

\* --------------------------------------------------- UIState::PasswordError
\* Mutant of PasswordErrorKey: the rejection notice is not dismissed.
PasswordErrorKey_Stays(key) ==
    /\ InState("PasswordError")
    /\ state' = state
    /\ Ran("PasswordError:any")
    /\ UNCHANGED <<fixed, model, dialog, elapsed, pc, reboot>>

\* PasswordError x any key
PasswordErrorKey(key) ==
    /\ InState("PasswordError")
    /\ state' = StAskPassword
    /\ Ran("PasswordError:any")
    /\ UNCHANGED <<fixed, model, dialog, elapsed, pc, reboot>>

\* --------------------------------------------------- UIState::ConfirmReboot
\* ConfirmReboot x Esc
ConfirmRebootEsc(key) ==
    /\ InState("ConfirmReboot") /\ key = KeyEsc
    /\ state' = StMain
    /\ Ran("ConfirmReboot:Esc")
    /\ UNCHANGED <<fixed, model, dialog, elapsed, pc, reboot>>

\* ConfirmReboot x Left | Right | Tab
ConfirmRebootToggle(key) ==
    /\ InState("ConfirmReboot") /\ key \in KeyToggle
    /\ reboot_yes' = ~reboot_yes
    /\ Ran("stay")
    /\ UNCHANGED <<fixed, model, state, password, show_password, pending_action,
                   quit_yes, elapsed, pc, reboot>>

\* ConfirmReboot x Enter
ConfirmRebootEnter(key) ==
    /\ InState("ConfirmReboot") /\ key = KeyEnter
    /\ IF reboot_yes
       THEN state' = StCountdownReboot(CountdownStart) /\ elapsed' = 0
       ELSE state' = StMain /\ elapsed' = elapsed
    /\ Ran("ConfirmReboot:Enter")
    /\ UNCHANGED <<fixed, model, dialog, pc, reboot>>

\* ConfirmReboot x any other key: the arm `_ => {}`
ConfirmRebootOther(key) ==
    /\ InState("ConfirmReboot")
    /\ key \notin {KeyEsc, KeyEnter} \cup KeyToggle
    /\ Ran("stay")
    /\ UNCHANGED <<fixed, model, state, dialog, elapsed, pc, reboot>>

\* ------------------------------------------------- UIState::CountdownReboot
\* Mutant of CountdownEsc: the last second of the countdown cannot be cancelled.
CountdownEsc_NotInLastSecond(key) ==
    /\ InState("CountdownReboot") /\ key = KeyEsc
    /\ state' = IF state.seconds > 1 THEN StMain ELSE state
    /\ last_arm' = "CountdownReboot:Esc"
    /\ last_cmd' = NoCmd
    /\ last_call' = NoCall
    /\ waited' = IF state.seconds > 1 THEN 0 ELSE waited
    /\ typed' = <<>>
    /\ undo' = NoUndo
    /\ ticks' = IF state.seconds > 1 THEN 0 ELSE ticks
    /\ UNCHANGED <<fixed, model, dialog, elapsed, pc, reboot>>

\* CountdownReboot(_) x Esc
CountdownEsc(key) ==
    /\ InState("CountdownReboot") /\ key = KeyEsc
    /\ state' = StMain
    /\ Ran("CountdownReboot:Esc")
    /\ UNCHANGED <<fixed, model, dialog, elapsed, pc, reboot>>

\* CountdownReboot(_) x any other key
CountdownOther(key) ==
    /\ InState("CountdownReboot") /\ key /= KeyEsc
    /\ last_arm' = "stay"
    /\ last_cmd' = NoCmd
    /\ last_call' = NoCall
    /\ undo' = NoUndo
    /\ UNCHANGED <<fixed, model, state, dialog, elapsed, pc, reboot, ticks,
                   typed, waited>>

\* How `sudo reboot` ends: spawn fails, or wait returns whatever it returns.
RebootResults == {"spawn_error", "exit_0", "exit_1", "wait_error"}

\* Mutant of Tick: the loop goes on when the reboot command fails.
Tick_StaysOnFailure ==
    /\ InState("CountdownReboot")
    /\ elapsed >= TickSecs
    /\ elapsed' = 0
    /\ IF state.seconds > 1
       THEN /\ state' = StCountdownReboot(state.seconds - 1)
            /\ last_call' = NoCall
            /\ UNCHANGED <<pc, reboot>>
       ELSE \E r \in RebootResults :
              /\ reboot' = r
              /\ last_call' = RebootCall(r)
              /\ pc' = IF r = "exit_0" THEN "exited" ELSE "loop"
              /\ state' = state
    /\ last_arm' = "tick"
    /\ last_cmd' = NoCmd
    /\ undo' = NoUndo
    /\ ticks' = ticks + 1
    /\ waited' = 0
    /\ UNCHANGED <<fixed, model, dialog, typed>>

\* The countdown ticker, at the top of every loop iteration.
Tick ==
    /\ InState("CountdownReboot")
    /\ elapsed >= TickSecs
    /\ elapsed' = 0
    /\ IF state.seconds > 1
       THEN /\ state' = StCountdownReboot(state.seconds - 1)
            /\ last_call' = NoCall
            /\ UNCHANGED <<pc, reboot>>
       ELSE \E r \in RebootResults :
              /\ reboot' = r
              /\ last_call' = RebootCall(r)
              /\ pc' = IF r = "spawn_error" THEN "error" ELSE "exited"
              /\ state' = state
    /\ last_arm' = "tick"
    /\ last_cmd' = NoCmd
    /\ undo' = NoUndo
    /\ ticks' = ticks + 1
    /\ waited' = 0
    /\ UNCHANGED <<fixed, model, dialog, typed>>

\* ----------------------------------------------------- UIState::QuitConfirm
\* QuitConfirm x Esc
QuitConfirmEsc(key) ==
    /\ InState("QuitConfirm") /\ key = KeyEsc
    /\ state' = StMain
    /\ Ran("QuitConfirm:Esc")
    /\ UNCHANGED <<fixed, model, dialog, elapsed, pc, reboot>>

\* QuitConfirm x Left | Right | Tab
QuitConfirmToggle(key) ==
    /\ InState("QuitConfirm") /\ key \in KeyToggle
    /\ quit_yes' = ~quit_yes
    /\ Ran("stay")
    /\ UNCHANGED <<fixed, model, state, password, show_password, pending_action,
                   reboot_yes, elapsed, pc, reboot>>

\* QuitConfirm x Enter
QuitConfirmEnter(key) ==
    /\ InState("QuitConfirm") /\ key = KeyEnter
    /\ IF quit_yes
       THEN pc' = "exited" /\ state' = state
       ELSE pc' = pc /\ state' = StMain
    /\ Ran("QuitConfirm:Enter")
    /\ UNCHANGED <<fixed, model, dialog, elapsed, reboot>>

\* QuitConfirm x any other key: the arm `_ => {}`
QuitConfirmOther(key) ==
    /\ InState("QuitConfirm")
    /\ key \notin {KeyEsc, KeyEnter} \cup KeyToggle
    /\ Ran("stay")
    /\ UNCHANGED <<fixed, model, state, dialog, elapsed, pc, reboot>>

\* ------------------------------------------- UIState::Help and ErrorMessage
\* Help x any key
HelpKey(key) ==
    /\ InState("Help")
    /\ state' = StMain
    /\ Ran("Help:any")
    /\ UNCHANGED <<fixed, model, dialog, elapsed, pc, reboot>>

\* Mutant of ErrorMessageKey: dismissing the message drops the pending action.
ErrorMessageKey_DropsPending(key) ==
    /\ InState("ErrorMessage")
    /\ state' = StAskPassword
    /\ pending_action' = ActionNone
    /\ Ran("ErrorMessage:any")
    /\ UNCHANGED <<fixed, model, password, show_password, reboot_yes, quit_yes,
                   elapsed, pc, reboot>>

\* ErrorMessage(_) x any key
ErrorMessageKey(key) ==
    /\ InState("ErrorMessage")
    /\ state' = StAskPassword
    /\ Ran("ErrorMessage:any")
    /\ UNCHANGED <<fixed, model, dialog, elapsed, pc, reboot>>

\* ------------------------------------------------------------------- time
\* A second passes on the wall clock (last_tick.elapsed() grows).
PassTime ==
    /\ pc = "loop"
    /\ elapsed < TickSecs
    /\ elapsed' = elapsed + 1
    /\ waited' = IF state.tag = "CountdownReboot" /\ waited < TickSecs
                 THEN waited + 1 ELSE waited
    /\ UNCHANGED <<fixed, model, state, dialog, pc, reboot, last_arm, last_cmd,
                   ticks, undo, typed, last_call>>

\* -------------------------------------------------------- the event loop
\* event::read() returned Event::Key(key): the arm of `match state` runs.
HandleKey(key) ==
    \/ MainQuit(key)
    \/ MainTab(key)
    \/ MainUp(key)
    \/ MainDown(key)
    \/ MainMoveUp(key)
    \/ MainMoveDown(key)
    \/ MainEnter(key)
    \/ MainHelp(key)
    \/ MainOther(key)
    \/ AskPasswordEsc(key)
    \/ AskPasswordTab(key)
    \/ AskPasswordBackspace(key)
    \/ \E res \in CmdResults : AskPasswordEnter(key, res)
    \/ AskPasswordChar(key)
    \/ AskPasswordOther(key)
    \/ PasswordErrorKey(key)
    \/ ConfirmRebootEsc(key)
    \/ ConfirmRebootToggle(key)
    \/ ConfirmRebootEnter(key)
    \/ ConfirmRebootOther(key)
    \/ CountdownEsc(key)
    \/ CountdownOther(key)
    \/ QuitConfirmEsc(key)
    \/ QuitConfirmToggle(key)
    \/ QuitConfirmEnter(key)
    \/ QuitConfirmOther(key)
    \/ HelpKey(key)
    \/ ErrorMessageKey(key)

Next ==
    \/ \E key \in Keys : HandleKey(key)
    \/ Tick
    \/ PassTime

Spec == Init /\ [][Next]_vars

\* ------------------------------------------------------ the startup model
\* main before line 694: the inventory and the order were fetched.
InitStartup ==
    /\ fetched \in FetchedLists
    /\ order \in FetchedOrderLists
    /\ entries = fetched
    /\ current_boot_id = ""
    /\ original_order = <<>>
    /\ pc = "startup"
    /\ last_arm = "none"
    /\ typist = Operator
    /\ Declared

\* main, lines 694-716: the sort by the fetched order, and the declarations.
Startup ==
    /\ pc = "startup"
    /\ current_boot_id' = FirstOrDefault(order)
    /\ entries' = SortByOrder(entries, order)
    /\ original_order' = Ids(SortByOrder(entries, order))
    /\ pc' = "loop"
    /\ last_arm' = "start"
    /\ UNCHANGED <<fetched, order, typist, selected_priority, selected_boot_once,
                   focus, state, dialog, elapsed,
                   reboot, last_cmd, ticks, undo, typed, last_call,
                   waited>>

NextStartup == Startup

SpecStartup == InitStartup /\ [][NextStartup]_vars

\* ------------------------------------------------------- the prompt model
\* The operator of the prompt model: types any character, MaxPromptLen at
\* most, and the keys are kept in typed.
PromptOperator == [chars |-> Chars, max |-> MaxPromptLen, logged |-> TRUE]

\* The state machine after Main x Enter on the full inventory: AskPassword
\* with an empty secret.
InitPrompt ==
    /\ fetched = FetchedEntries(MaxEntries)
    /\ order = Ids(FetchedEntries(MaxEntries))
    /\ entries = SortByOrder(fetched, order)
    /\ current_boot_id = FirstOrDefault(order)
    /\ original_order = Ids(SortByOrder(fetched, order))
    /\ selected_priority = 0
    /\ selected_boot_once = 0
    /\ focus \in FocusValues
    /\ state = StAskPassword
    /\ password = <<>>
    /\ show_password = FALSE
    /\ pending_action = IF focus = "Priority" THEN ActionSetOrder(Ids(entries))
                        ELSE ActionBootOnce(entries[1].id)
    /\ reboot_yes = TRUE
    /\ quit_yes = FALSE
    /\ elapsed = 0
    /\ pc = "loop"
    /\ reboot = "none"
    /\ last_arm = "Main:Enter"
    /\ last_cmd = NoCmd
    /\ ticks = 0
    /\ undo = NoUndo
    /\ typist = PromptOperator
    /\ typed = <<>>
    /\ last_call = NoCall
    /\ waited = 0

\* The editing arms of AskPassword, MaxPromptLen + 2 keys at most.
NextPrompt ==
    \E key \in Keys :
      /\ Len(typed) < MaxPromptLen + 2
      /\ \/ AskPasswordTab(key)
         \/ AskPasswordBackspace(key)
         \/ AskPasswordChar(key)

SpecPrompt == InitPrompt /\ [][NextPrompt]_vars

\* ------------------------------------------------------------------ claims
\* The last handler ran a privileged command, which produced output.
CommandRan == last_arm = "AskPassword:Enter" /\ last_cmd.kind = "output"

\* The error stream of the last command holds "Sorry" or "try again".
Rejected == Contains(last_cmd.stderr, SorryText)
            \/ Contains(last_cmd.stderr, TryAgainText)

\* The last command exited with status zero.
ExitedZero == last_cmd.status = Exited(0)

\* C1: for either pending action and every exit status, a captured error
\* stream that holds "Sorry" or "try again" leaves AskPassword x Enter in
\* PasswordError.
C1_RejectionIsPasswordError ==
    (CommandRan /\ Rejected)
      => (state = StPasswordError /\ pc = "loop"
          /\ pending_action.kind \in {"SetOrder", "BootOnce"})

\* C1 witness: a rejection phrase with exit status zero, after a boot-once.
C1_Witness ==
    /\ CommandRan /\ Rejected /\ ExitedZero
    /\ pending_action.kind = "BootOnce"
    /\ state = StPasswordError

\* C2: exit status zero and no rejection phrase lead to ConfirmReboot for
\* SetOrder and to CountdownReboot(5) for BootOnce.
C2_SuccessState ==
    (CommandRan /\ ExitedZero /\ ~Rejected)
      => /\ pc = "loop"
         /\ pending_action.kind = "SetOrder" => state = StConfirmReboot
         /\ pending_action.kind = "BootOnce" => state = StCountdownReboot(5)
         /\ pending_action.kind \in {"SetOrder", "BootOnce"}

\* C2 witness: a boot-once that succeeded while its error stream was not empty.
C2_Witness ==
    /\ CommandRan /\ ExitedZero /\ ~Rejected
    /\ last_cmd.stderr /= <<>>
    /\ pending_action.kind = "BootOnce"
    /\ state = StCountdownReboot(5)

\* The message the claim expects of a failed command: the trimmed error stream,
\* or the exit code (-1 for a signal) when nothing is left of the stream.
C3_ExpectedText ==
    IF Trim(last_cmd.stderr) /= <<>>
    THEN Trim(last_cmd.stderr)
    ELSE ExitCodePrefix
         \o (IF last_cmd.status.kind = "code" THEN ShowInt(last_cmd.status.n)
             ELSE <<"-", "1">>)

\* C3: a non-zero exit status and no rejection phrase lead to
\* ErrorMessage(text), never to PasswordError, for every error stream.
C3_FailureIsErrorMessage ==
    (CommandRan /\ ~ExitedZero /\ ~Rejected)
      => state = StErrorMessage(C3_ExpectedText)

\* The state, the panel and cursors a key handler leaves alone.
ModelUnchanged == UNCHANGED <<entries, selected_priority, selected_boot_once, focus>>

\* C4 as claimed: in every state Esc leads to Main and leaves the reorder
\* model alone; from AskPassword it also empties the secret and the action.
C4_EscAlwaysMain ==
    [][HandleKey(KeyEsc)
         => /\ state' = StMain
            /\ ModelUnchanged
            /\ state.tag = "AskPassword"
                 => (password' = <<>> /\ pending_action' = ActionNone)]_vars

\* C4 amended: Esc leads to Main from every state but PasswordError and
\* ErrorMessage, where it leads to AskPassword as any key does; the reorder
\* model is unchanged in all of them, and from AskPassword the secret is
\* emptied and the pending action set to None.
C4_EscMainExceptErrors ==
    [][HandleKey(KeyEsc)
         => /\ state.tag \notin {"PasswordError", "ErrorMessage"} => state' = StMain
            /\ state.tag \in {"PasswordError", "ErrorMessage"} => state' = StAskPassword
            /\ ModelUnchanged
            /\ pc' = "loop"
            /\ state.tag = "AskPassword"
                 => (password' = <<>> /\ pending_action' = ActionNone)]_vars

\* C4 witness: Esc was handled in AskPassword after the entries were reordered.
C4_Witness ==
    /\ last_arm = "AskPassword:Esc"
    /\ state = StMain
    /\ password = <<>> /\ pending_action = ActionNone
    /\ Ids(entries) /= original_order

\* C5: outside AskPassword the secret buffer is empty.
C5_SecretEmptyOutsidePrompt ==
    state.tag /= "AskPassword" => password = <<>>

\* C6: only the tick taken in CountdownReboot(1) issues a reboot; Esc in any
\* CountdownReboot(n) leads to Main without a reboot, and a countdown is
\* entered only by an Enter handled in ConfirmReboot or in AskPassword.
C6_RebootOnlyByLastTick ==
    [][/\ reboot' /= reboot
            => (Tick /\ state = StCountdownReboot(1) /\ reboot = "none")
       /\ (state.tag = "CountdownReboot" /\ HandleKey(KeyEsc))
            => (state' = StMain /\ reboot' = "none" /\ pc' = "loop")
       /\ (state.tag /= "CountdownReboot" /\ state'.tag = "CountdownReboot")
            => /\ state' = StCountdownReboot(5)
               /\ ConfirmRebootEnter(KeyEnter)
                    \/ \E res \in CmdResults : AskPasswordEnter(KeyEnter, res)
      ]_vars

\* C6 witness: the countdown was cancelled in its last second with a tick due.
C6_Witness ==
    /\ last_arm = "CountdownReboot:Esc"
    /\ state = StMain /\ pc = "loop"
    /\ reboot = "none"
    /\ elapsed >= TickSecs

\* C7: from CountdownReboot(5) each tick lowers the seconds by one while they
\* exceed 1, so the state after k ticks is CountdownReboot(5 - k); the tick
\* in CountdownReboot(1) invokes the reboot and ends the loop however the
\* command ends; a key other than Esc changes neither seconds nor timer.
C7_CountdownTicks ==
    [][/\ state'.tag = "CountdownReboot" /\ pc' = "loop"
            => state'.seconds = 5 - ticks'
       /\ (Tick /\ state.seconds > 1)
            => /\ state' = StCountdownReboot(state.seconds - 1)
               /\ pc' = "loop" /\ reboot' = "none"
       /\ (Tick /\ state.seconds = 1)
            => (reboot' /= "none" /\ pc' /= "loop" /\ ticks' = 5)
       /\ state.tag = "CountdownReboot"
            => \A key \in Keys \ {KeyEsc} :
                 HandleKey(key) => UNCHANGED <<state, elapsed, ticks, reboot, pc>>
      ]_vars

\* C7 witness: the fifth tick ran a reboot command that failed, and the loop ended.
C7_Witness ==
    /\ last_arm = "tick" /\ ticks = 5
    /\ state = StCountdownReboot(1)
    /\ reboot = "exit_1"
    /\ pc = "exited"

\* C8: 'q' in Main ends the loop when the ids are in their original order and
\* otherwise opens QuitConfirm on "No"; QuitConfirm ends the loop only on
\* Enter with "Yes", and Esc, or Enter with "No", lead back to Main.
C8_QuitRoutes ==
    [][/\ state.tag = "Main"
            => \A key \in Keys :
                 MainQuit(key)
                   => IF Ids(entries) = original_order
                      THEN pc' = "exited"
                      ELSE state' = StQuitConfirm /\ quit_yes' = FALSE /\ pc' = "loop"
       /\ state.tag = "QuitConfirm"
            => \A key \in Keys :
                 HandleKey(key)
                   => /\ pc' /= "loop" <=> (key = KeyEnter /\ quit_yes)
                      /\ pc' /= "loop" => pc' = "exited"
                      /\ (key = KeyEsc \/ (key = KeyEnter /\ ~quit_yes))
                           => state' = StMain
      ]_vars

\* C8 witness: a changed order was discarded by Enter on "Yes" in QuitConfirm.
C8_Witness ==
    /\ last_arm = "QuitConfirm:Enter"
    /\ pc = "exited" /\ quit_yes
    /\ Ids(entries) /= original_order

\* Both cursors index an entry.
CursorsInRange ==
    /\ selected_priority \in 0..(Len(entries) - 1)
    /\ selected_boot_once \in 0..(Len(entries) - 1)

\* C9: with entries, both cursors stay in [0, len); up at 0 and down at
\* len - 1 change nothing, and otherwise an up or down press moves the
\* cursor of the focused panel by one and leaves the other cursor alone.
C9_CursorsInBounds ==
    [][/\ entries /= <<>> => CursorsInRange
       /\ entries' /= <<>> => CursorsInRange'
       /\ \A key \in Keys :
            (MainUp(key) /\ entries /= <<>>)
              => /\ focus = "Priority" =>
                      /\ selected_boot_once' = selected_boot_once
                      /\ selected_priority' = IF selected_priority = 0 THEN 0
                                              ELSE selected_priority - 1
                 /\ focus = "BootOnce" =>
                      /\ selected_priority' = selected_priority
                      /\ selected_boot_once' = IF selected_boot_once = 0 THEN 0
                                               ELSE selected_boot_once - 1
       /\ \A key \in Keys :
            (MainDown(key) /\ entries /= <<>>)
              => /\ focus = "Priority" =>
                      /\ selected_boot_once' = selected_boot_once
                      /\ selected_priority' =
                           IF selected_priority = Len(entries) - 1
                           THEN selected_priority ELSE selected_priority + 1
                 /\ focus = "BootOnce" =>
                      /\ selected_priority' = selected_priority
                      /\ selected_boot_once' =
                           IF selected_boot_once = Len(entries) - 1
                           THEN selected_boot_once ELSE selected_boot_once + 1
      ]_vars

\* C9 witness: the boot-target cursor was moved down to the last index, where
\* a further down press is the boundary case, and the other cursor stayed.
C9_Witness ==
    /\ state = StMain /\ focus = "BootOnce" /\ last_arm = "stay"
    /\ Len(entries) >= 2
    /\ selected_boot_once = Len(entries) - 1
    /\ selected_priority = 0

\* A move-down and the move-up right after it have been handled.
DownThenUp == undo.stage = "du"

\* The entries and the cursor are those before the move-down.
Restored == entries = undo.entries /\ selected_priority = undo.cursor

\* C10 as claimed: from every starting cursor, the first and the last index
\* included, move-down and then move-up restore the entries and the cursor.
C10_DownUpRestores == DownThenUp => Restored

\* C10 amended: move-down and then move-up restore the entries and the cursor
\* from every starting cursor that is not the last index of a list of two or
\* more entries.
C10_DownUpRestoresBelowLast ==
    (DownThenUp /\ (undo.cursor + 1 < Len(undo.entries) \/ Len(undo.entries) <= 1))
      => Restored

\* C10 witness: a move-down and a move-up from the first index of a reordered list.
C10_Witness ==
    /\ DownThenUp /\ Restored
    /\ undo.cursor = 0 /\ Len(undo.entries) >= 2
    /\ Ids(entries) /= original_order

\* The argument the claim expects of comma-joined ids: the ids at the odd
\* places and a comma at every even place between them.
CommaJoined(ids) ==
    [k \in 1..(2 * Len(ids) - 1) |-> IF k % 2 = 1 THEN ids[(k + 1) \div 2] ELSE ","]

\* The program and arguments the claim expects for the focused panel.
ExpectedArgv ==
    IF focus = "Priority"
    THEN <<<<"sudo">>, <<"-S">>, <<"efibootmgr">>, <<"-o">>,
           CommaJoined(Ids(entries))>>
    ELSE <<<<"sudo">>, <<"-S">>, <<"efibootmgr">>, <<"-n">>,
           <<entries[selected_boot_once + 1].id>>>>

\* C11: Main x Enter leaves the loop running in AskPassword with an empty
\* secret and the pending action of the focused panel (SetOrder of all ids in
\* their order, or BootOnce of the id at the boot-target cursor); the command
\* AskPassword x Enter runs later has exactly those ids, comma-joined after
\* "-o", or exactly that id after "-n".
C11_ConfirmBuildsAction ==
    /\ last_arm = "Main:Enter"
         => /\ pc = "loop"
            /\ state = StAskPassword
            /\ password = <<>>
            /\ pending_action =
                 IF focus = "Priority" THEN ActionSetOrder(Ids(entries))
                 ELSE ActionBootOnce(entries[selected_boot_once + 1].id)
    /\ (last_arm = "AskPassword:Enter" /\ last_call /= NoCall)
         => last_call.argv = ExpectedArgv

\* C12, as amended: submitting the password does not consume the pending
\* action. After AskPassword x Enter the pending action is still the SetOrder
\* or BootOnce that Main x Enter built, the one program started is the command
\* of that action, and the pending action is there in AskPassword,
\* PasswordError and ErrorMessage, where a further submission runs it again.
C12_PendingKeptAcrossSubmit ==
    /\ last_arm = "AskPassword:Enter"
         => /\ pending_action.kind \in {"SetOrder", "BootOnce"}
            /\ last_call.argv = ExpectedArgv
            /\ pending_action.kind = "SetOrder" <=> focus = "Priority"
    /\ state.tag \in {"AskPassword", "PasswordError", "ErrorMessage"}
         => pending_action.kind \in {"SetOrder", "BootOnce"}

\* Enter in the prompt can start a command.
C12_CommandCanRun ==
    ENABLED (\E res \in CmdResults :
               AskPasswordEnter(KeyEnter, res) /\ last_call' /= NoCall)

\* C12 witness: the command of one Main x Enter ran and was rejected, a key
\* led back to the prompt, the pending action is still there and Enter can
\* start its command a second time.
C12_Witness ==
    /\ last_arm = "PasswordError:any"
    /\ state = StAskPassword
    /\ pending_action.kind = "SetOrder"
    /\ C12_CommandCanRun

\* C12 as the spec states it: after the password is submitted the pending
\* action is None, and no command can run from a prompt that was entered
\* again without a new Main x Enter.
C12_ConsumedOnSubmit ==
    /\ last_arm = "AskPassword:Enter" => pending_action = ActionNone
    /\ last_arm \in {"PasswordError:any", "ErrorMessage:any"} => ~C12_CommandCanRun

\* C13: a set-order or boot-once command is started only by the handler of
\* Enter in AskPassword; the failure states are entered only by that handler;
\* any key in PasswordError or ErrorMessage leads to AskPassword with an empty
\* secret and starts no command.
C13_NoAutomaticRerun ==
    /\ last_call.stdin = "piped" => last_arm = "AskPassword:Enter"
    /\ last_cmd /= NoCmd => last_arm = "AskPassword:Enter"
    /\ state.tag \in {"PasswordError", "ErrorMessage"}
         => last_arm = "AskPassword:Enter" /\ password = <<>>
    /\ last_arm \in {"PasswordError:any", "ErrorMessage:any"}
         => /\ pc = "loop"
            /\ state = StAskPassword
            /\ password = <<>>
            /\ last_call = NoCall
            /\ last_cmd = NoCmd

\* C13 witness: a key dismissed the error message of a failed boot-once, and
\* the prompt waits with an empty secret.
C13_Witness ==
    /\ last_arm = "ErrorMessage:any"
    /\ state = StAskPassword /\ password = <<>>
    /\ pending_action.kind = "BootOnce"
    /\ last_call = NoCall

\* C14: when a successful set-order enters ConfirmReboot the selection is
\* "Yes"; Enter in ConfirmReboot leads to CountdownReboot(5) when "Yes" is
\* selected and to Main when "No" is.
C14_ConfirmRebootStartsAtYes ==
    /\ (last_arm = "AskPassword:Enter" /\ state = StConfirmReboot) => reboot_yes
    /\ last_arm = "ConfirmReboot:Enter"
         => state = IF reboot_yes THEN StCountdownReboot(5) ELSE StMain

\* What a script writes on the input channel before it closes the channel,
\* when its argument `password` is pw.
RECURSIVE C15_Written(_, _)
C15_Written(script, pw) ==
    IF script = <<>> \/ Head(script).op = "close" THEN <<>>
    ELSE (IF Head(script).op /= "write" THEN <<>>
          ELSE IF Head(script).data = "password" THEN pw
          ELSE <<Head(script).data>>)
         \o C15_Written(Tail(script), pw)

\* The script closes the input channel, and waits only after that.
C15_ClosedBeforeWait(script) ==
    \E i \in 1..Len(script) :
      /\ script[i].op = "close"
      /\ \A j \in 1..Len(script) : script[j].op = "wait" => i < j

\* Secrets to try a script on.
C15_Secrets == {<<>>, <<"q">>, <<"q", "u">>, <<"\n">>}

\* The program is given the secret and a newline, whatever the secret, and the
\* channel is closed before the wait.
C15_SecretPiped(call) ==
    /\ call.stdin = "piped"
    /\ \A pw \in C15_Secrets : C15_Written(call.script, pw) = pw \o <<"\n">>
    /\ C15_ClosedBeforeWait(call.script)

\* C15, as amended: every set-order and boot-once command is `sudo -S ..`,
\* gets the secret and a newline on its input channel, and the channel is
\* closed before the wait; `sudo reboot` has a null input channel and gets
\* nothing.
C15_CommandsGetSecretRebootDoesNot ==
    /\ (last_arm = "AskPassword:Enter" /\ last_call /= NoCall)
         => /\ SubSeq(last_call.argv, 1, 3) = <<<<"sudo">>, <<"-S">>, <<"efibootmgr">>>>
            /\ C15_SecretPiped(last_call)
    /\ (last_arm = "tick" /\ last_call /= NoCall)
         => /\ last_call.argv = <<<<"sudo">>, <<"reboot">>>>
            /\ last_call.stdin = "null"
            /\ \A pw \in C15_Secrets : C15_Written(last_call.script, pw) = <<>>

\* C15 witness: a command ran to its exit status and succeeded, with a secret
\* of one character on its input channel.
C15_Witness ==
    /\ CommandRan /\ state = StConfirmReboot
    /\ password = <<"q">>
    /\ C15_Written(last_call.script, password) = <<"q", "\n">>

\* C15 as the spec states it: every program the core starts, `sudo reboot`
\* included, gets the secret and a newline, and the channel is closed before
\* the wait.
C15_EveryCallGetsSecret ==
    last_call /= NoCall => C15_SecretPiped(last_call)

\* The id is in the fetched order.
C16_InOrder(id) == \E i \in 1..Len(order) : order[i] = id

\* The index of the id in the fetched order.
C16_IndexOf(id) == MinOf({i \in 1..Len(order) : order[i] = id})

\* The place of the entry in the fetched list.
C16_FetchedAt(e) == CHOOSE i \in 1..Len(fetched) : fetched[i] = e

\* C16: after startup the entries are the fetched entries, those whose id is in
\* the fetched order first, by the index of their id, then the others in their
\* fetched relative order; current_boot_id is the first id of the order.
C16_StartupSort ==
    pc = "loop"
      => /\ Len(entries) = Len(fetched)
         /\ {entries[i] : i \in 1..Len(entries)} = {fetched[i] : i \in 1..Len(fetched)}
         /\ \A r, t \in 1..Len(entries) :
              r < t =>
                IF C16_InOrder(entries[r].id)
                THEN C16_InOrder(entries[t].id)
                       => C16_IndexOf(entries[r].id) < C16_IndexOf(entries[t].id)
                ELSE /\ ~C16_InOrder(entries[t].id)
                     /\ C16_FetchedAt(entries[r]) < C16_FetchedAt(entries[t])
         /\ order /= <<>> => current_boot_id = order[1]
         /\ original_order = Ids(entries)

\* C16 witness: Linux 0001, Windows 0002 with order [0002, 0001] gave
\* [Windows, Linux] and current_boot_id 0002.
C16_Witness ==
    /\ pc = "loop"
    /\ fetched = <<BootEntry(1), BootEntry(2)>>
    /\ order = <<"0002", "0001">>
    /\ entries = <<BootEntry(2), BootEntry(1)>>
    /\ current_boot_id = "0002"

\* The secret the claim expects after the keys: a character goes to the end,
\* Backspace takes the last character away if there is one, Tab does nothing.
RECURSIVE C17_Expected(_)
C17_Expected(keys) ==
    IF keys = <<>> THEN <<>>
    ELSE LET before == C17_Expected(SubSeq(keys, 1, Len(keys) - 1))
             key == keys[Len(keys)]
         IN  IF key.code = "Char" THEN before \o <<key.c>>
             ELSE IF key.code = "Backspace" /\ before /= <<>>
             THEN SubSeq(before, 1, Len(before) - 1)
             ELSE before

\* C17: in AskPassword the secret is what the typed keys make of an empty
\* secret, a character appended at the end, Backspace removing the last
\* character or nothing from an empty secret, Tab changing nothing; a
\* character and the Backspace after it leave the secret as it was before.
C17_SecretEdits ==
    typist.logged
      => /\ password = C17_Expected(typed)
         /\ (/\ Len(typed) >= 2
             /\ typed[Len(typed) - 1].code = "Char"
             /\ typed[Len(typed)] = KeyBackspace)
              => password = C17_Expected(SubSeq(typed, 1, Len(typed) - 2))
         /\ (typed /= <<>> /\ typed[Len(typed)] = KeyTab)
              => password = C17_Expected(SubSeq(typed, 1, Len(typed) - 1))

\* C17 witness: three different characters and Backspace twice leave the first.
C17_Witness ==
    /\ typed = <<KeyChar("q"), KeyChar("u"), KeyChar("d"), KeyBackspace,
                 KeyBackspace>>
    /\ password = <<"q">>

\* C18: AskPassword is entered by Main x Enter, by a key in PasswordError and
\* by a key in ErrorMessage only, each time with an empty secret, so that the
\* secret a command gets is what was typed into this prompt.
C18_PromptStartsEmpty ==
    /\ InState("AskPassword")
         => last_arm \in {"Main:Enter", "PasswordError:any", "ErrorMessage:any",
                          "stay"}
    /\ (InState("AskPassword") /\ last_arm /= "stay") => password = <<>>

\* C18 witness: Main x Enter entered the prompt with an empty secret after an
\* earlier set-order had succeeded and its reboot dialog was left on "No".
C18_Witness ==
    /\ last_arm = "Main:Enter" /\ state = StAskPassword
    /\ password = <<>>
    /\ ~reboot_yes

\* C19: whatever the command of AskPassword x Enter does, the loop keeps
\* running in ConfirmReboot, CountdownReboot(5), PasswordError or
\* ErrorMessage; the loop is left only by 'q' in Main with the order
\* unchanged, by Enter on "Yes" in QuitConfirm, or by the countdown's last tick.
C19_EveryOutcomeKeepsLoop ==
    /\ (last_arm = "AskPassword:Enter" /\ last_cmd /= NoCmd)
         => /\ pc = "loop"
            /\ \/ state.tag \in {"ConfirmReboot", "PasswordError", "ErrorMessage"}
               \/ state = StCountdownReboot(5)
    /\ pc /= "loop"
         => \/ last_arm = "Main:q" /\ Ids(entries) = original_order
            \/ last_arm = "QuitConfirm:Enter" /\ quit_yes
            \/ last_arm = "tick" /\ state = StCountdownReboot(1)

\* C20: the ticker is due in CountdownReboot only when a second has passed
\* since the countdown was entered or last ticked.
C20_TickAfterFullSecond ==
    (pc = "loop" /\ state.tag = "CountdownReboot" /\ elapsed >= TickSecs)
      => waited >= TickSecs

\* The handled key invoked no privileged command and left the loop running.
C21_Quiet == pc' = "loop" /\ last_call' = NoCall /\ last_cmd' = NoCmd

\* The cancel key can be handled now, invokes nothing and lands in Main.
C21_EscReachesMain == ENABLED (HandleKey(KeyEsc) /\ state' = StMain /\ C21_Quiet)

\* Some key can be handled now that invokes nothing and lands in AskPassword.
C21_DismissReachesPrompt ==
    ENABLED (\E key \in Keys : HandleKey(key) /\ state' = StAskPassword /\ C21_Quiet)

\* C21: the operator is never stuck. While the loop runs, the machine is in
\* Main, or the cancel key leads to Main, or (in PasswordError and
\* ErrorMessage) one dismissing key leads to AskPassword, from where the
\* cancel key leads to Main; none of these keys invokes a privileged command.
C21_NeverStuck ==
    pc = "loop" =>
      /\ state.tag \in {"AskPassword", "ConfirmReboot", "CountdownReboot",
                         "QuitConfirm", "Help"} => C21_EscReachesMain
      /\ state.tag \in {"PasswordError", "ErrorMessage"} => C21_DismissReachesPrompt
      /\ state.tag \in {"Main", "AskPassword", "PasswordError", "ErrorMessage",
                         "ConfirmReboot", "CountdownReboot", "QuitConfirm", "Help"}

\* C21 witness: a failure notice was dismissed into the prompt, and the cancel
\* key now leads to Main without invoking anything.
C21_Witness ==
    /\ last_arm \in {"PasswordError:any", "ErrorMessage:any"}
    /\ state = StAskPassword
    /\ C21_EscReachesMain

\* The machine is back in Main straight from the dialogs that only a
\* successful set-order command leads to, and the order it applied (still the
\* pending action) differs from the snapshot taken at startup.
C22_BackAfterChangedOrder ==
    /\ InState("Main")
    /\ last_arm \in {"ConfirmReboot:Esc", "ConfirmReboot:Enter", "CountdownReboot:Esc"}
    /\ pending_action.kind = "SetOrder"
    /\ pending_action.ids /= original_order

\* The quit key can be handled and leads to QuitConfirm with the loop running.
C22_QuitAsks ==
    ENABLED (HandleKey(KeyChar("q")) /\ state' = StQuitConfirm /\ pc' = "loop")

\* The quit key can be handled and ends the loop.
C22_QuitEnds == ENABLED (HandleKey(KeyChar("q")) /\ pc' /= "loop")

\* C22: original_order stays the id sequence of the sorted startup list in
\* every state, also after a successful set-order; so when a changed order
\* has been applied and the operator is back in Main, the list still differs
\* from original_order and 'q' leads to QuitConfirm, never out of the loop.
C22_SnapshotNeverUpdated ==
    /\ original_order = Ids(SortByOrder(fetched, order))
    /\ C22_BackAfterChangedOrder
         => /\ Ids(entries) = pending_action.ids
            /\ C22_QuitAsks
            /\ ~C22_QuitEnds

\* C22 witness: a changed order was applied, the reboot dialog was answered
\* "No", and in Main the quit key leads to QuitConfirm.
C22_Witness ==
    /\ C22_BackAfterChangedOrder
    /\ last_arm = "ConfirmReboot:Enter"
    /\ C22_QuitAsks

\* a holds the elements of b, each as often as b does.
C23_IsPermutation(a, b) ==
    /\ Len(a) = Len(b)
    /\ \A k \in 1..Len(b) :
          Cardinality({n \in 1..Len(a) : a[n] = b[k]})
            = Cardinality({n \in 1..Len(b) : b[n] = b[k]})

\* The keys of Main that act on the list, the cursors or the focus.
C23_ModelKeys == {KeyTab} \cup KeyUp \cup KeyDown \cup KeyMoveUp \cup KeyMoveDown

\* A step changes the list only as a move key handled in Main with the
\* priority panel focused, changes the cursors or the focus only as one of
\* Main's navigation and move keys, and changes none of them outside Main.
C23_StepKeepsModel ==
    /\ entries' /= entries
         => /\ InState("Main") /\ focus = "Priority"
            /\ \E key \in KeyMoveUp \cup KeyMoveDown :
                  MainMoveUp(key) \/ MainMoveDown(key)
    /\ ~ModelUnchanged
         => /\ InState("Main")
            /\ \E key \in C23_ModelKeys \cap Keys : HandleKey(key)
    /\ focus' /= focus
         => MainTab(KeyTab) /\ UNCHANGED <<entries, selected_priority, selected_boot_once>>

\* C23: in every state the list is a permutation of the list built at
\* startup; it changes only by 'u'/'d' handled in Main with the priority panel
\* focused; outside Main every key and every tick leaves the list, both
\* cursors and the focus unchanged, and in Main only Tab changes the focus and
\* only the navigation and move keys change a cursor.
C23_PermutationMovedOnlyInMain ==
    /\ [](pc /= "startup" => C23_IsPermutation(entries, SortByOrder(fetched, order)))
    /\ [][C23_StepKeepsModel]_vars

\* C23 witness: the list was reordered in Main and the machine then went
\* through the prompt and a command into the countdown, the list still being
\* the reordered permutation.
C23_Witness ==
    /\ InState("CountdownReboot")
    /\ Ids(entries) /= original_order
    /\ C23_IsPermutation(entries, SortByOrder(fetched, order))
    /\ Len(entries) = MaxEntries

\* C23 as stated: every step other than a move key handled in Main with the
\* priority panel focused leaves the list, both cursors and the focus
\* unchanged.
C23_OnlyMoveKeysChangeModel ==
    [][\/ \E key \in KeyMoveUp \cup KeyMoveDown : MainMoveUp(key) \/ MainMoveDown(key)
       \/ ModelUnchanged]_vars

\* Enter can be handled in the prompt without a command being invoked, or
\* with the machine going straight back to Main (the Action::None branch).
C24_NoneBranchCanRun ==
    ENABLED (/\ \E res \in CmdResults : AskPasswordEnter(KeyEnter, res)
             /\ (last_call' = NoCall \/ state' = StMain))

\* C24: in AskPassword, PasswordError and ErrorMessage the pending action is
\* SetOrder or BootOnce, never None; so Enter in AskPassword invokes exactly
\* one privileged command, the one of the pending action, and the branch for
\* Action::None, which returns to Main without a command, cannot be taken.
C24_PendingNeverNoneInPrompt ==
    /\ state.tag \in {"AskPassword", "PasswordError", "ErrorMessage"}
         => pending_action.kind \in {"SetOrder", "BootOnce"}
    /\ InState("AskPassword") => ~C24_NoneBranchCanRun
    /\ last_arm = "AskPassword:Enter"
         => /\ last_call /= NoCall
            /\ last_call = PendingCall(pending_action)
            /\ last_cmd /= NoCmd
            /\ state /= StMain

\* C24 witness: Enter in the prompt ran the boot-once command, which failed
\* into ErrorMessage with the action still pending.
C24_Witness ==
    /\ last_arm = "AskPassword:Enter"
    /\ state.tag = "ErrorMessage"
    /\ pending_action.kind = "BootOnce"
    /\ last_call = SudoCall(BootOnceArgs(pending_action.ids[1]))

\* Enter can be handled in the prompt and invokes a privileged command.
C25_CommandCanBeInvoked ==
    ENABLED (\E res \in CmdResults :
               AskPasswordEnter(KeyEnter, res) /\ last_call' /= NoCall)

\* C25: Enter in Main never reads the list outside [0, Len(entries)): it does
\* not end in the panic of an out-of-range index, a BootOnce action is built
\* only with selected_boot_once < Len(entries), and with an empty list no
\* pending action is built and no privileged command is or can be invoked.
C25_ConfirmStaysInRange ==
    /\ last_arm = "Main:Enter"
         => /\ pc /= "panicked"
            /\ pending_action.kind = "BootOnce" => selected_boot_once < Len(entries)
    /\ entries = <<>>
         => /\ pending_action = ActionNone
            /\ last_call = NoCall
            /\ ~C25_CommandCanBeInvoked

=============================================================================
